---- MODULE Spec2Model ----
(***************************************************************************)
(* Model of generative_ai/imagen/edit_image_mask_free.py: the command-line *)
(* entry point (argparse, lines 69-99) and the function                    *)
(* edit_image_mask_free (lines 30-64), which initialises the Vertex AI     *)
(* SDK, looks the model up, loads the input image, issues one blocking     *)
(* edit_image request, saves the first returned image, prints its size and *)
(* returns.  The SDK, the remote service and the file system are the       *)
(* environment: every SDK call may succeed or raise, the service answers   *)
(* an edit request with any collection of images, a file is either missing *)
(* or holds an image of any length, and each standard stream is open,      *)
(* closed or unwritable, buffered or not.                                  *)
(*                                                                         *)
(* Optional values are None == <<>> and Some(v) == <<v>>.                  *)
(***************************************************************************)
EXTENDS Integers, Sequences, FiniteSets, TLC

VARIABLES
    pc,        \* the line the program is at ("main", "L41", ..., "exited")
    argv,      \* the command line: flag -> None | Some(value), and how the
               \* parser stops on it (stop, extra)
    ns,        \* the argparse namespace `args` of line 92, None before
    params,    \* the five parameters of edit_image_mask_free, None before
    sdk,       \* the SDK's global configuration set by vertexai.init
    model,     \* local `model` of line 43
    base_img,  \* local `base_img` of line 44
    request,   \* the edit request in flight to the remote service
    images,    \* local `images` of line 46
    fs,        \* the file system: path -> None | Some(image)
    stdout,    \* what the current invocation delivered to standard output
    result,    \* the value returned at line 64
    error,     \* the exception that left the function, "none" if none
    exitCode,  \* the process's exit code, None while it runs
    log,       \* the SDK calls issued by the current invocation, in order
    stdio,     \* the process's standard streams: where they lead and
               \* whether they are buffered
    outbuf,    \* the lines of line 62 held in the buffer of a standard
               \* output that cannot be written to
    seen       \* the calls of an earlier invocation, kept for comparison

vars == <<pc, argv, ns, params, sdk, model, base_img, request, images, fs,
          stdout, result, error, exitCode, log, stdio, outbuf, seen>>

None == <<>>
Some(v) == <<v>>

-----------------------------------------------------------------------------
(* Bounds of the model. *)

\* the longest image buffer, in bytes
MaxBytes == 1
\* the largest collection of images the service answers with
MaxImages == 2
\* the lines of line 62 the buffer of standard output holds before a write
\* has to reach the device (234 lines of 35 bytes in a buffer of 8192)
BufferLines == 2

-----------------------------------------------------------------------------
(* The values the inputs are drawn from. *)

Projects == {"proj-a", "proj-b"}
Locations == {"us-central1", "europe-west4"}
Paths == {"in.png", "out.png"}
Prompts == {"a dog", "a cat"}

Flags == {"project_id", "location", "input_file", "output_file", "prompt"}

FlagValues(f) ==
    CASE f = "project_id" -> Projects
      [] f = "location" -> Locations
      [] f = "input_file" -> Paths
      [] f = "output_file" -> Paths
      [] f = "prompt" -> Prompts

\* An image object: its byte buffer (_image_bytes), which may be empty:
\* nothing in lines 44-62 looks at its content.
ImageOf(n) == [image_bytes |-> [i \in 1..n |-> 0]]
Images == {ImageOf(n) : n \in 0..MaxBytes}

RECURSIVE SeqsUpTo(_, _)
SeqsUpTo(S, n) ==
    IF n = 0 THEN {<<>>}
    ELSE LET shorter == SeqsUpTo(S, n - 1)
         IN  shorter \cup {Append(s, x) : s \in {t \in shorter : Len(t) = n - 1}, x \in S}

\* What the service may answer an edit request with: a response object
\* holding a list of images (ImageGenerationResponse, line 32).
Responses == {[images |-> s] : s \in SeqsUpTo(Images, MaxImages)}

Opt(S) == {None} \cup {Some(v) : v \in S}

\* The argument at which parse_args stops before it has read the whole
\* command line: -h/--help (the help action ArgumentParser() adds, line 70),
\* or an argument it rejects where it stands (a flag without its value, an
\* ambiguous abbreviation).  "none" when there is neither, or when the
\* other one comes first.
Stops == {"none", "help", "malformed"}

\* Command lines: each flag is absent or given with a value; stop is the
\* argument the parser stops at; extra tells whether an argument no
\* add_argument of lines 71-91 declares (unrecognized or positional) is
\* present.
CommandLines == [project_id : Opt(Projects), location : Opt(Locations),
                 input_file : Opt(Paths), output_file : Opt(Paths),
                 prompt : Opt(Prompts), stop : Stops, extra : BOOLEAN]

FileSystems == [Paths -> Opt(Images)]

\* The standard streams the process starts with.  out and err say where
\* standard output and standard error lead: "open" (writes arrive),
\* "closed" (sys.stdout or sys.stderr is None), "full" (every write to the
\* device fails) or, for standard output, "hangup" (a terminal that is gone
\* by the time of the first write).  unbuffered tells whether the
\* interpreter runs with unbuffered streams.
StdioStates == [unbuffered : BOOLEAN,
                out : {"open", "closed", "full", "hangup"},
                err : {"open", "closed", "full"}]

ParamSets == [project_id : Projects, location : Locations, input_file : Paths,
              output_file : Paths, prompt : Prompts]

-----------------------------------------------------------------------------
(* The program's constants and pure parts. *)

\* seed=1 (line 50)
Seed == 1
\* guidance_scale=21 (line 53)
GuidanceScale == 21
\* number_of_images=1 (line 54)
NumberOfImages == 1

\* "imagegeneration@002" (line 43)
ModelName == "imagegeneration@002"

\* faulty variant: another default region
DefaultLocationOther == "europe-west4"
\* default="us-central1" (line 75)
DefaultLocation == "us-central1"

\* faulty variant: --prompt added without required=True
RequiredFlagsNoPrompt == {"project_id", "input_file", "output_file"}
\* the flags added with required=True (lines 71, 77-91)
RequiredFlags == {"project_id", "input_file", "output_file", "prompt"}

\* parser.parse_args() on a command line holding every required flag: each
\* attribute is the flag's value, a flag left out yields its default
\* (None for a flag added without one).
Namespace(a) ==
    [f \in Flags |->
        IF a[f] # None THEN a[f]
        ELSE IF f = "location" THEN Some(DefaultLocation) ELSE None]

\* The positional call of lines 93-99.
MainCallParams(n) ==
    [project_id |-> n["project_id"][1], location |-> n["location"][1],
     input_file |-> n["input_file"][1], output_file |-> n["output_file"][1],
     prompt |-> n["prompt"][1]]

\* faulty variant: an SDK already configured keeps its configuration
InitKwargsSticky(p) ==
    IF sdk # None THEN sdk[1]
    ELSE [project |-> p.project_id, location |-> p.location]
\* vertexai.init(project=project_id, location=location) (line 41)
InitKwargs(p) == [project |-> p.project_id, location |-> p.location]

\* faulty variant: the seed is not the fixed one
EditRequestNoSeed(base, prompt) ==
    [base_image |-> base, prompt |-> prompt, seed |-> 0,
     guidance_scale |-> GuidanceScale, number_of_images |-> NumberOfImages]
\* the keyword arguments of model.edit_image (lines 46-55)
EditRequest(base, prompt) ==
    [base_image |-> base, prompt |-> prompt, seed |-> Seed,
     guidance_scale |-> GuidanceScale, number_of_images |-> NumberOfImages]

\* images[0] on a response holding at least one image (lines 57, 62)
FirstImage(imgs) == imgs.images[1]

\* faulty variant: prints len(images), the number of images
SuccessLineCount(imgs) ==
    [text |-> "Created output image using {} bytes", n |-> Len(imgs.images)]
\* f"Created output image using {len(images[0]._image_bytes)} bytes" (line 62)
SuccessLine(imgs) ==
    [text |-> "Created output image using {} bytes",
     n |-> Len(FirstImage(imgs).image_bytes)]

\* faulty variant: return images[0]
ReturnFirst(imgs) == FirstImage(imgs)
\* return images (line 64)
ReturnValue(imgs) == imgs

\* the help text parser.print_help() writes for -h/--help (line 92)
HelpText == [text |-> "usage: edit_image_mask_free.py [-h] ... options: ..."]
\* the usage text parser.error() writes before its message (line 92)
UsageText == [text |-> "usage: edit_image_mask_free.py [-h] ..."]

\* A write to stream t ("out", "err") leaves text in the stream's buffer
\* that the flush at the end of the process cannot deliver.
Pends(io, t) == ~io.unbuffered /\ io[t] \in {"full", "hangup"}

\* What print(...) at line 62 does on the standard output when its buffer
\* holds `held` earlier lines: the line arrives ("written"); sys.stdout is
\* None and print returns without writing ("skipped"); the line joins the
\* buffer of a full device ("buffered"); or the write to the device fails
\* and print raises ("raises"), at once on an unbuffered stream or a
\* terminal that is gone, and on a buffered full device when the buffer
\* has no room left.
PrintOutcome(io, held) ==
    CASE io.out = "open" -> "written"
      [] io.out = "closed" -> "skipped"
      [] io.out = "hangup" -> "raises"
      [] io.out = "full" -> IF io.unbuffered \/ held >= BufferLines
                            THEN "raises" ELSE "buffered"

\* The lines the buffer of standard output holds after that print: one
\* more when the line joined it, none when the buffer overflowed (the
\* text it held is dropped with the failed write).
BufferAfter(io, held) ==
    CASE PrintOutcome(io, held) = "buffered" -> held + 1
      [] PrintOutcome(io, held) = "raises" /\ io.out = "full" /\ ~io.unbuffered -> 0
      [] OTHER -> held

\* The stream -h/--help writes the help text to (line 92): sys.stdout, or
\* sys.stderr when sys.stdout is None; a failed write is ignored.
HelpStream(io) == IF io.out # "closed" THEN "out" ELSE "err"

\* The stream parser.error() writes the usage to (line 92): sys.stderr, or
\* sys.stdout when sys.stderr is None; its message goes to sys.stderr; a
\* failed write is ignored.
UsageStream(io) == IF io.err # "closed" THEN "err" ELSE "out"

\* The status the process ends with: 120 when text written to a standard
\* stream cannot be flushed, else the status it was ending with.
ExitStatus(status, flushed) == IF flushed THEN status ELSE 120

Call(op, kw) == [op |-> op, kw |-> kw]

\* the first statement of edit_image_mask_free (line 41)
EntryLine == "L41"

\* the statement that follows statement l of edit_image_mask_free (lines 41-64)
NextLine(l) ==
    CASE l = "L41" -> "L43"
      [] l = "L43" -> "L44"
      [] l = "L44" -> "L46"
      [] l = "L46" -> "L57"
      [] l = "L57" -> "L62"
      [] l = "L62" -> "L64"

\* An exception leaves the function: nothing catches it (lines 41-64).
Raise(e) ==
    /\ pc' = "raised"
    /\ error' = e

-----------------------------------------------------------------------------
(* The initial states. *)

Fresh ==
    /\ ns = None /\ params = None /\ sdk = None /\ model = None
    /\ base_img = None /\ request = None /\ images = None
    /\ stdout = <<>> /\ result = None /\ error = "none"
    /\ exitCode = None /\ log = <<>>
    /\ outbuf = 0 /\ seen = None

\* The script run as a program (line 69), on any command line and file system.
Init ==
    /\ pc = "main"
    /\ argv \in CommandLines
    /\ fs \in FileSystems
    /\ stdio \in StdioStates
    /\ Fresh

-----------------------------------------------------------------------------
(* The command-line entry point, lines 69-99. *)

\* args = parser.parse_args() (line 92).  -h/--help writes the help text
\* and ends the process with status 0; an argument rejected where it
\* stands, a missing required flag, or an undeclared argument writes the
\* usage and a message and ends the process with status 2; in both cases
\* the status is 120 when the text cannot be flushed.  Otherwise the
\* namespace is built.
ParseArgs ==
    /\ pc = "main"
    /\ IF argv.stop = "help"
       THEN /\ pc' = "exited"
            /\ stdout' = IF stdio.out = "open" THEN <<HelpText>> ELSE <<>>
            /\ exitCode' = Some(ExitStatus(0, ~Pends(stdio, HelpStream(stdio))))
            /\ UNCHANGED ns
       ELSE IF \/ argv.stop = "malformed"
               \/ \E f \in RequiredFlags : argv[f] = None
               \/ argv.extra
       THEN /\ pc' = "exited"
            /\ stdout' = IF UsageStream(stdio) = "out" /\ stdio.out = "open"
                         THEN <<UsageText>> ELSE <<>>
            /\ exitCode' = Some(ExitStatus(2, ~Pends(stdio, UsageStream(stdio))))
            /\ UNCHANGED ns
       ELSE /\ pc' = "L93"
            /\ ns' = Some(Namespace(argv))
            /\ UNCHANGED <<exitCode, stdout>>
    /\ UNCHANGED <<seen, outbuf, stdio, argv, params, sdk, model, base_img, request, images,
                   fs, result, error, log>>

\* edit_image_mask_free(args.project_id, ..., args.prompt) (lines 93-99)
MainCall ==
    /\ pc = "L93"
    /\ params' = Some(MainCallParams(ns[1]))
    /\ pc' = EntryLine
    /\ UNCHANGED <<seen, outbuf, stdio, argv, ns, sdk, model, base_img, request, images, fs,
                   stdout, result, error, exitCode, log>>

\* The process ends: status 0 after the call returns (line 99), status 1
\* with a traceback on standard error when an exception reached the top
\* level; the status is 120 when the line of line 62 or the traceback
\* stays in a buffer that cannot be flushed.
ProcessExit ==
    /\ pc \in {"returned", "raised"}
    /\ pc' = "exited"
    /\ LET outPending == /\ Pends(stdio, "out")
                         /\ \/ outbuf > 0
                            \/ stdio.out = "hangup" /\ error = "PrintError"
           errPending == pc = "raised" /\ Pends(stdio, "err")
       IN  exitCode' = Some(ExitStatus(IF pc = "returned" THEN 0 ELSE 1,
                                       ~outPending /\ ~errPending))
    /\ UNCHANGED <<seen, outbuf, stdio, argv, ns, params, sdk, model, base_img, request, images,
                   fs, stdout, result, error, log>>

-----------------------------------------------------------------------------
(* edit_image_mask_free, lines 30-64. *)

\* vertexai.init(project=project_id, location=location) (line 41)
VertexaiInit ==
    /\ pc = "L41"
    /\ log' = Append(log, Call("vertexai.init", InitKwargs(params[1])))
    /\ \E ok \in BOOLEAN :
        IF ok
        THEN /\ sdk' = Some(InitKwargs(params[1]))
             /\ pc' = NextLine("L41")
             /\ UNCHANGED error
        ELSE /\ Raise("InitError")
             /\ UNCHANGED sdk
    /\ UNCHANGED <<seen, outbuf, stdio, argv, ns, params, model, base_img, request, images, fs,
                   stdout, result, exitCode>>

\* model = ImageGenerationModel.from_pretrained("imagegeneration@002") (line 43)
FromPretrained ==
    /\ pc = "L43"
    /\ log' = Append(log, Call("from_pretrained", [model_name |-> ModelName]))
    /\ \E ok \in BOOLEAN :
        IF ok
        THEN /\ model' = Some(ModelName)
             /\ pc' = NextLine("L43")
             /\ UNCHANGED error
        ELSE /\ Raise("ModelLookupError")
             /\ UNCHANGED model
    /\ UNCHANGED <<seen, outbuf, stdio, argv, ns, params, sdk, base_img, request, images, fs,
                   stdout, result, exitCode>>

\* faulty variant: a missing file does not raise, an empty image is bound
LoadFromFileUnchecked ==
    /\ pc = "L44"
    /\ log' = Append(log, Call("load_from_file", [location |-> params[1].input_file]))
    /\ base_img' = IF fs[params[1].input_file] # None
                   THEN fs[params[1].input_file]
                   ELSE Some(ImageOf(0))
    /\ pc' = NextLine("L44")
    /\ UNCHANGED <<seen, outbuf, stdio, argv, ns, params, sdk, model, request, images, fs,
                   stdout, result, error, exitCode>>

\* faulty variant: the loaded image is copied to output_file before the
\* edit call
LoadFromFileWritesOutput ==
    /\ pc = "L44"
    /\ fs[params[1].input_file] # None
    /\ log' = log \o <<Call("load_from_file", [location |-> params[1].input_file]),
                       Call("save", [image |-> fs[params[1].input_file][1],
                                     location |-> params[1].output_file])>>
    /\ base_img' = fs[params[1].input_file]
    /\ fs' = [fs EXCEPT ![params[1].output_file] = fs[params[1].input_file]]
    /\ pc' = NextLine("L44")
    /\ UNCHANGED <<seen, outbuf, stdio, argv, ns, params, sdk, model, request, images,
                   stdout, result, error, exitCode>>

\* base_img = Image.load_from_file(location=input_file) (line 44): raises
\* when the file is missing, and may raise when it cannot be read.
LoadFromFile ==
    /\ pc = "L44"
    /\ log' = Append(log, Call("load_from_file", [location |-> params[1].input_file]))
    /\ \E ok \in BOOLEAN :
        IF ok /\ fs[params[1].input_file] # None
        THEN /\ base_img' = fs[params[1].input_file]
             /\ pc' = NextLine("L44")
             /\ UNCHANGED error
        ELSE /\ Raise("LoadError")
             /\ UNCHANGED base_img
    /\ UNCHANGED <<seen, outbuf, stdio, argv, ns, params, sdk, model, request, images, fs,
                   stdout, result, exitCode>>

\* model.edit_image(base_image=base_img, prompt=prompt, seed=1,
\* guidance_scale=21, number_of_images=1) (lines 46-55): the request leaves
\* and the caller blocks.
EditImageCall ==
    /\ pc = "L46"
    /\ log' = Append(log, Call("edit_image", EditRequest(base_img[1], params[1].prompt)))
    /\ request' = Some(EditRequest(base_img[1], params[1].prompt))
    /\ pc' = "L46_wait"
    /\ UNCHANGED <<seen, outbuf, stdio, argv, ns, params, sdk, model, base_img, images, fs,
                   stdout, result, error, exitCode>>

\* faulty variant: a failed edit call is issued again
EditImageReturnRetry ==
    /\ pc = "L46_wait"
    /\ request' = None
    /\ \/ \E resp \in Responses :
            /\ images' = Some(resp)
            /\ pc' = NextLine("L46")
       \/ /\ pc' = "L46"
          /\ UNCHANGED images
    /\ UNCHANGED <<seen, outbuf, stdio, argv, ns, params, sdk, model, base_img, fs, stdout,
                   result, error, exitCode, log>>

\* The blocking call of line 46 ends: images is bound to the service's
\* answer, or the call raises.
EditImageReturn ==
    /\ pc = "L46_wait"
    /\ request' = None
    /\ \/ \E resp \in Responses :
            /\ images' = Some(resp)
            /\ pc' = NextLine("L46")
            /\ UNCHANGED error
       \/ /\ Raise("EditError")
          /\ UNCHANGED images
    /\ UNCHANGED <<seen, outbuf, stdio, argv, ns, params, sdk, model, base_img, fs, stdout,
                   result, exitCode, log>>

\* faulty variant: an empty collection is skipped silently and saving
\* never raises
SaveFirstImageSkipEmpty ==
    /\ pc = "L57"
    /\ IF Len(images[1].images) = 0
       THEN UNCHANGED <<fs, log>>
       ELSE /\ log' = Append(log, Call("save", [image |-> FirstImage(images[1]),
                                                location |-> params[1].output_file]))
            /\ fs' = [fs EXCEPT ![params[1].output_file] = Some(FirstImage(images[1]))]
    /\ pc' = NextLine("L57")
    /\ UNCHANGED <<seen, outbuf, stdio, argv, ns, params, sdk, model, base_img, request, images,
                   stdout, result, error, exitCode>>

\* images[0].save(location=output_file) (line 57): images[0] raises
\* IndexError on an empty collection; save writes the file or raises.
SaveFirstImage ==
    /\ pc = "L57"
    /\ IF Len(images[1].images) = 0
       THEN /\ Raise("IndexError")
            /\ UNCHANGED <<fs, log>>
       ELSE /\ log' = Append(log, Call("save", [image |-> FirstImage(images[1]),
                                                location |-> params[1].output_file]))
            /\ \E ok \in BOOLEAN :
                IF ok
                THEN /\ fs' = [fs EXCEPT ![params[1].output_file] = Some(FirstImage(images[1]))]
                     /\ pc' = NextLine("L57")
                     /\ UNCHANGED error
                ELSE /\ Raise("SaveError")
                     /\ UNCHANGED fs
    /\ UNCHANGED <<seen, outbuf, stdio, argv, ns, params, sdk, model, base_img, request, images,
                   stdout, result, exitCode>>

\* print(f"Created output image using {len(images[0]._image_bytes)} bytes")
\* (line 62): the line arrives on standard output, or print returns
\* without delivering it, or print raises.
PrintSize ==
    /\ pc = "L62"
    /\ IF PrintOutcome(stdio, outbuf) = "raises"
       THEN /\ Raise("PrintError")
            /\ UNCHANGED stdout
       ELSE /\ stdout' = IF PrintOutcome(stdio, outbuf) = "written"
                         THEN Append(stdout, SuccessLine(images[1]))
                         ELSE stdout
            /\ pc' = NextLine("L62")
            /\ UNCHANGED error
    /\ outbuf' = BufferAfter(stdio, outbuf)
    /\ UNCHANGED <<seen, stdio, argv, ns, params, sdk, model, base_img, request, images,
                   fs, result, exitCode, log>>

\* return images (line 64)
Return ==
    /\ pc = "L64"
    /\ result' = Some(ReturnValue(images[1]))
    /\ pc' = "returned"
    /\ UNCHANGED <<seen, outbuf, stdio, argv, ns, params, sdk, model, base_img, request, images,
                   fs, stdout, error, exitCode, log>>

Next ==
    \/ ParseArgs
    \/ MainCall
    \/ VertexaiInit
    \/ FromPretrained
    \/ LoadFromFile
    \/ EditImageCall
    \/ EditImageReturn
    \/ SaveFirstImage
    \/ PrintSize
    \/ Return
    \/ ProcessExit

Spec == Init /\ [][Next]_vars

-----------------------------------------------------------------------------
(* The function called repeatedly by a program that imports the module     *)
(* (the guard of line 69 is false): the SDK's global configuration, the    *)
(* file system and the buffer of standard output persist from one          *)
(* invocation to the next.                                                 *)

NoFlags == [project_id |-> None, location |-> None, input_file |-> None,
            output_file |-> None, prompt |-> None, stop |-> "none",
            extra |-> FALSE]

\* The calls of a log as far as the caller's inputs decide them: a save is
\* taken with its path alone, the image it writes being the service's
\* answer.
IssuedCalls(l) ==
    [i \in 1..Len(l) |->
        IF l[i].op = "save"
        THEN Call("save", [location |-> l[i].kw.location])
        ELSE l[i]]

\* The parameter sets whose invocations are remembered for comparison: one
\* that reads a file and writes another, one that overwrites its input.
Watched ==
    {[project_id |-> "proj-a", location |-> "us-central1",
      input_file |-> "in.png", output_file |-> "out.png", prompt |-> "a dog"],
     [project_id |-> "proj-b", location |-> "europe-west4",
      input_file |-> "out.png", output_file |-> "out.png", prompt |-> "a cat"]}

\* What is remembered of the invocation that has just ended: a watched invocation that issued all its
\* calls is kept with its parameters, the file content it loaded and its
\* calls; an invocation on other parameters than the kept one is noted as
\* having come in between.
Remembered ==
    IF params # None /\ params[1] \in Watched /\ Len(log) = 5
    THEN Some([params |-> params[1], content |-> base_img[1],
               calls |-> IssuedCalls(log), between |-> FALSE])
    ELSE IF seen # None /\ params # None /\ params[1] # seen[1].params
    THEN Some([seen[1] EXCEPT !.between = TRUE])
    ELSE seen

\* The importing program is about to make its first call.  Standard error
\* is taken open: lines 41-64 write nothing to it.
InitRuns ==
    /\ pc = "idle"
    /\ argv = NoFlags
    /\ fs \in FileSystems
    /\ stdio \in {io \in StdioStates : io.err = "open"}
    /\ Fresh

\* A call edit_image_mask_free(project_id, location, input_file, output_file,
\* prompt) (lines 30-32) by the importing program: the parameters are bound
\* and the locals are fresh.
Invoke ==
    /\ pc = "idle"
    /\ \E p \in ParamSets : params' = Some(p)
    /\ pc' = EntryLine
    /\ UNCHANGED <<seen, outbuf, stdio, argv, ns, sdk, model, base_img, request,
                   images, fs, stdout, result, error, exitCode, log>>

\* The call has returned or raised (line 64, or an exception leaving lines
\* 41-62) and the importing program goes on: the frame of the call, its
\* parameters and locals, is gone.
Leave ==
    /\ pc \in {"returned", "raised"}
    /\ pc' = "idle"
    /\ seen' = Remembered
    /\ params' = None /\ model' = None /\ base_img' = None
    /\ request' = None /\ images' = None
    /\ stdout' = <<>> /\ result' = None /\ error' = "none" /\ log' = <<>>
    /\ UNCHANGED <<outbuf, stdio, argv, ns, sdk, fs, exitCode>>

NextRuns ==
    \/ Invoke
    \/ Leave
    \/ VertexaiInit
    \/ FromPretrained
    \/ LoadFromFile
    \/ EditImageCall
    \/ EditImageReturn
    \/ SaveFirstImage
    \/ PrintSize
    \/ Return

SpecRuns == InitRuns /\ [][NextRuns]_vars

-----------------------------------------------------------------------------
(* Vocabulary of the properties. *)

Issued(op) == \E i \in 1..Len(log) : log[i].op = op
TimesIssued(op) == Cardinality({i \in 1..Len(log) : log[i].op = op})

\* the function has been entered
Entered == params # None
\* the run ended with every step done
Succeeded == pc = "returned" \/ (pc = "exited" /\ Entered /\ exitCode = Some(0))
\* the run ended with an exception
Failed ==
    /\ error # "none"
    /\ pc = "raised" \/ (pc = "exited" /\ exitCode \in {Some(1), Some(120)})

-----------------------------------------------------------------------------
(* C1 *)

\* C1: whenever the edit request is in flight it carries seed 1, guidance
\* scale 21 and one requested image, the prompt the caller passed, and the
\* image held by the file input_file names; the same holds of every edit
\* call the run has issued.
C1_RequestCarriesFixedParameters ==
    /\ request # None =>
        /\ request[1] = [base_image |-> fs[params[1].input_file][1],
                         prompt |-> params[1].prompt,
                         seed |-> 1, guidance_scale |-> 21, number_of_images |-> 1]
        /\ base_img = fs[params[1].input_file]
        /\ ns # None => request[1].prompt = argv.prompt[1]
    /\ \A i \in 1..Len(log) : log[i].op = "edit_image" =>
        /\ log[i].kw.seed = 1
        /\ log[i].kw.guidance_scale = 21
        /\ log[i].kw.number_of_images = 1
        /\ log[i].kw.prompt = params[1].prompt
        /\ log[i].kw.base_image = base_img[1]

C1_Witness ==
    /\ request # None
    /\ request[1].prompt = "a cat"
    /\ request[1].base_image = ImageOf(1)
    /\ request[1].seed = 1

-----------------------------------------------------------------------------
(* C2 *)

\* the file input_file names does not exist
InputMissing == Entered /\ fs[params[1].input_file] = None

\* C2 as stated: when input_file names a missing file and the load fails, no
\* step that contacts the remote service (client initialization, model
\* lookup, edit call) has happened.
C2_NoRemoteStepBeforeLoadFails ==
    (InputMissing /\ error = "LoadError") =>
        /\ ~Issued("vertexai.init")
        /\ ~Issued("from_pretrained")
        /\ ~Issued("edit_image")

\* C2 amended: when input_file names a missing file, the run never issues
\* the edit call and never writes; once past line 44 it has failed, and
\* when it fails with the load error the client initialization and the
\* model lookup have already been called, followed by the load alone.
C2_LoadFailsBeforeEditCall ==
    InputMissing =>
        /\ ~Issued("edit_image")
        /\ ~Issued("save")
        /\ request = None
        /\ pc \notin {"L41", "L43", "L44"} => Failed /\ error # "none"
        /\ error = "LoadError" =>
            log = << [op |-> "vertexai.init",
                      kw |-> [project |-> params[1].project_id,
                              location |-> params[1].location]],
                     [op |-> "from_pretrained",
                      kw |-> [model_name |-> "imagegeneration@002"]],
                     [op |-> "load_from_file",
                      kw |-> [location |-> params[1].input_file]] >>

C2_Witness ==
    /\ InputMissing
    /\ error = "LoadError"
    /\ pc = "exited"
    /\ sdk # None
    /\ model # None

-----------------------------------------------------------------------------
(* C3 *)

\* a required flag is missing from the command line
RequiredFlagMissing ==
    \E f \in {"project_id", "input_file", "output_file", "prompt"} : argv[f] = None

\* the process ended inside parse_args: the function was never entered, so
\* no SDK call, no configuration, no image loaded, no request, no file
\* written, no success line, no result
EndedInParsing ==
    /\ pc = "exited"
    /\ ns = None /\ params = None
    /\ sdk = None /\ model = None /\ base_img = None
    /\ request = None /\ images = None
    /\ log = <<>> /\ result = None
    /\ \A i \in 1..Len(stdout) : stdout[i] \in {HelpText, UsageText}

\* C3 as stated: when a required flag is missing from the command line, the
\* process exits with a nonzero code during argument parsing, before the
\* function is entered.
C3_MissingFlagExitsNonzero ==
    (RequiredFlagMissing /\ pc # "main") =>
        /\ EndedInParsing
        /\ exitCode # None /\ exitCode[1] # 0

\* C3 amended: when a required flag is missing, the process exits during
\* argument parsing, before the function is entered.  The code is nonzero
\* (2, or 120 when the parser's message stays in a buffer that cannot be
\* flushed), except when the parser stops at -h/--help, where the code is
\* 0 (120 when the help text cannot be flushed).
C3_MissingFlagExitsInParsing ==
    (RequiredFlagMissing /\ pc # "main") =>
        /\ EndedInParsing
        /\ exitCode # None
        /\ argv.stop # "help" =>
              /\ exitCode[1] \in {2, 120}
              /\ exitCode = Some(120) <=>
                    /\ ~stdio.unbuffered
                    /\ \/ stdio.err = "full"
                       \/ stdio.err = "closed" /\ stdio.out \in {"full", "hangup"}
              /\ stdout # <<>> =>
                    (stdout = <<UsageText>> /\ stdio.err = "closed" /\ stdio.out = "open")
        /\ argv.stop = "help" =>
              /\ exitCode[1] \in {0, 120}
              /\ exitCode = Some(120) <=>
                    /\ ~stdio.unbuffered
                    /\ \/ stdio.out \in {"full", "hangup"}
                       \/ stdio.out = "closed" /\ stdio.err = "full"
              /\ stdout = IF stdio.out = "open" THEN <<HelpText>> ELSE <<>>

\* --prompt alone is missing and the parser reports it on standard error
C3_Witness ==
    /\ pc = "exited"
    /\ argv.prompt = None
    /\ argv.project_id # None /\ argv.input_file # None /\ argv.output_file # None
    /\ argv.stop = "none" /\ ~argv.extra
    /\ stdio.err = "open"
    /\ exitCode = Some(2)
    /\ stdout = <<>>

-----------------------------------------------------------------------------
(* C4 *)

\* the file of a run that ended with every step done: the file at
\* output_file holds the first returned image, and the only file written
\* is output_file
SuccessFile ==
    /\ images # None /\ Len(images[1].images) >= 1
    /\ fs[params[1].output_file] = Some(images[1].images[1])
    /\ TimesIssued("save") = 1
    /\ \A i \in 1..Len(log) : log[i].op = "save" =>
          log[i].kw = [image |-> images[1].images[1],
                       location |-> params[1].output_file]

\* exactly one line was printed, whose number is the length of the first
\* returned image's byte buffer
SuccessOutput ==
    /\ Len(stdout) = 1
    /\ stdout[1].text = "Created output image using {} bytes"
    /\ stdout[1].n = Len(images[1].images[1].image_bytes)

\* C4 as stated: when the run ends with every step done, the file at
\* output_file holds the first returned image and exactly one line was
\* printed, whose number is the length of that image's byte buffer and is
\* a positive integer.
C4_SuccessPrintsPositiveSize ==
    Succeeded =>
        /\ SuccessFile
        /\ SuccessOutput
        /\ stdout[1].n \in Nat /\ stdout[1].n > 0

\* C4 amended: when the run ends with every step done, the file at
\* output_file holds the first returned image; when standard output is
\* open exactly one line was printed, whose number is the length of that
\* image's byte buffer: a natural number, positive when the buffer is not
\* empty and 0 when it is; when standard output is closed or unwritable
\* nothing was printed.
C4_SuccessWritesFileAndPrintsSize ==
    Succeeded =>
        /\ SuccessFile
        /\ stdio.out = "open" =>
              /\ SuccessOutput
              /\ stdout[1].n \in Nat
              /\ images[1].images[1].image_bytes # <<>> => stdout[1].n > 0
              /\ images[1].images[1].image_bytes = <<>> => stdout[1].n = 0
        /\ stdio.out # "open" => stdout = <<>>

\* a run that ended with status 0 on an answer of two images, the first
\* one empty
C4_Witness ==
    /\ pc = "exited" /\ exitCode = Some(0)
    /\ images # None
    /\ Len(images[1].images) = 2
    /\ images[1].images[1] = ImageOf(0)
    /\ images[1].images[2] = ImageOf(1)
    /\ stdout = << [text |-> "Created output image using {} bytes", n |-> 0] >>
    /\ fs[params[1].output_file] = Some(ImageOf(0))

-----------------------------------------------------------------------------
(* C5 *)

\* C5: the steps occur in one order.  While the edit request is in flight
\* the input has been read and nothing has been saved; an issued edit call
\* is preceded in the log by the load; an issued save is preceded by the
\* edit call, and by then the call has returned; and the file system only
\* changes once the answer is bound and no request is in flight.
C5_ReadThenEditThenWrite ==
    /\ [](/\ (request # None \/ pc = "L46_wait") =>
                /\ base_img # None
                /\ ~Issued("save")
                /\ images = None
          /\ \A j \in 1..Len(log) : log[j].op = "edit_image" =>
                /\ base_img # None
                /\ \E i \in 1..(j - 1) : log[i].op = "load_from_file"
          /\ \A j \in 1..Len(log) : log[j].op = "save" =>
                /\ images # None /\ request = None /\ pc # "L46_wait"
                /\ \E i \in 1..(j - 1) : log[i].op = "edit_image")
    /\ [][fs' # fs => (images # None /\ request = None /\ pc = "L57")]_vars

C5_Witness ==
    /\ pc = "L62"
    /\ Len(log) = 5
    /\ log[3].op = "load_from_file" /\ log[4].op = "edit_image" /\ log[5].op = "save"
    /\ params[1].input_file = params[1].output_file

-----------------------------------------------------------------------------
(* C6 *)

\* the number of SDK calls a run has issued when it fails with exception e
CallsWhenRaised(e) ==
    CASE e = "InitError" -> 1
      [] e = "ModelLookupError" -> 2
      [] e = "LoadError" -> 3
      [] e = "EditError" -> 4
      [] e = "IndexError" -> 4
      [] e = "SaveError" -> 5
      [] e = "PrintError" -> 5

\* C6: a failure ends the run at once.  No SDK call is issued twice, so the
\* edit call is issued at most once; a run that failed stays at the failure
\* with exactly the calls up to the failed step, nothing printed and
\* nothing returned; a failed edit call leaves no save issued; and a step
\* taken after the failure changes nothing but the end of the process.
C6_FailureTerminatesRun ==
    /\ [](/\ \A op \in {"vertexai.init", "from_pretrained", "load_from_file",
                        "edit_image", "save"} : TimesIssued(op) <= 1
          /\ error # "none" => Failed
          /\ (pc = "exited" /\ exitCode = Some(1)) => error # "none"
          /\ Failed =>
                /\ Len(log) = CallsWhenRaised(error)
                /\ stdout = <<>>
                /\ result = None
                /\ request = None
          /\ error \in {"InitError", "ModelLookupError", "LoadError", "EditError",
                        "IndexError"} => ~Issued("save")
          /\ stdout # <<>> => error = "none")
    /\ [][error # "none" =>
            UNCHANGED <<error, log, fs, stdout, result, sdk, model, base_img,
                        request, images>>]_vars

C6_Witness ==
    /\ pc = "exited" /\ exitCode = Some(1)
    /\ error = "EditError"
    /\ base_img # None
    /\ TimesIssued("edit_image") = 1

-----------------------------------------------------------------------------
(* C7 *)

\* C7 as stated: the result of a successful run is the first image of the
\* response collection.
C7_ResultIsFirstImage ==
    Succeeded => result = Some(images[1].images[1])

\* C7 amended: the result of a successful run is the response collection
\* the edit call returned, whose first image is the one saved to
\* output_file.
C7_ResultIsResponseCollection ==
    Succeeded =>
        /\ result = images
        /\ result[1] \in Responses
        /\ Len(result[1].images) >= 1
        /\ fs[params[1].output_file] = Some(result[1].images[1])

C7_Witness ==
    /\ pc = "returned"
    /\ result = Some([images |-> <<ImageOf(1), ImageOf(0)>>])
    /\ fs[params[1].output_file] = Some(ImageOf(1))

-----------------------------------------------------------------------------
(* C8 *)

\* the location and project the command line asks for
AskedLocation == IF argv.location = None THEN "us-central1" ELSE argv.location[1]
AskedProject == argv.project_id[1]

\* C8: the SDK is initialised with location "us-central1" when --location
\* is left out and with the given value otherwise, and with the project
\* --project_id gives.
C8_LocationDefaultAndOverride ==
    /\ \A i \in 1..Len(log) : log[i].op = "vertexai.init" =>
          log[i].kw = [project |-> AskedProject, location |-> AskedLocation]
    /\ sdk # None => sdk[1] = [project |-> AskedProject, location |-> AskedLocation]
    /\ (Entered /\ pc # "L41") => Issued("vertexai.init")

C8_Witness ==
    /\ argv.location = None
    /\ argv.project_id = Some("proj-b")
    /\ sdk = Some([project |-> "proj-b", location |-> "us-central1"])

-----------------------------------------------------------------------------
(* C9 *)

\* the SDK calls a complete run on parameters p issues when the input file
\* holds image img
ExpectedCalls(p, img) ==
    << [op |-> "vertexai.init",
        kw |-> [project |-> p.project_id, location |-> p.location]],
       [op |-> "from_pretrained", kw |-> [model_name |-> "imagegeneration@002"]],
       [op |-> "load_from_file", kw |-> [location |-> p.input_file]],
       [op |-> "edit_image",
        kw |-> [base_image |-> img, prompt |-> p.prompt, seed |-> 1,
                guidance_scale |-> 21, number_of_images |-> 1]] >>

\* the number of SDK calls an invocation has issued by the time it is at
\* line l
CallsBefore(l) ==
    CASE l = "L41" -> 0
      [] l = "L43" -> 1
      [] l = "L44" -> 2
      [] l = "L46" -> 3
      [] l \in {"L46_wait", "L57"} -> 4
      [] l \in {"L62", "L64", "returned"} -> 5

\* C9: whatever invocations came before in the process, the SDK calls the
\* current invocation has issued are a function of its five parameters and
\* of the input file's content alone.  The log holds exactly the calls of
\* the steps done, which are the same four calls followed by one save of
\* the answer's first image to output_file; the image sent is the content
\* of the file input_file names.  And an invocation on the parameters of a
\* remembered earlier one has issued the very calls the earlier one
\* issued: the first three in any case, the edit request and the save when
\* it loaded the same file content, however many invocations on other
\* parameters ran in between.
C9_CallsDependOnParametersOnly ==
    /\ Entered =>
        /\ Len(log) <= 5
        /\ pc # "raised" => Len(log) = CallsBefore(pc)
        /\ \A i \in 1..Len(log) : i <= 3 =>
              log[i] = ExpectedCalls(params[1], ImageOf(1))[i]
        /\ Len(log) >= 4 =>
              /\ base_img # None
              /\ log[4] = ExpectedCalls(params[1], base_img[1])[4]
        /\ pc \in {"L46", "L46_wait", "L57"} =>
              base_img = fs[params[1].input_file]
        /\ Len(log) = 5 =>
              /\ log[5].op = "save"
              /\ log[5].kw.location = params[1].output_file
              /\ log[5].kw.image = images[1].images[1]
    /\ (seen # None /\ params = Some(seen[1].params)) =>
        /\ Len(seen[1].calls) = 5
        /\ \A i \in 1..Len(log) :
              (i <= 3 \/ base_img = Some(seen[1].content)) =>
                  IssuedCalls(log)[i] = seen[1].calls[i]

\* an invocation that has issued all five calls, the same as a remembered
\* invocation on the same parameters and file content issued, after an
\* invocation on other parameters ran in between and left the SDK
\* configured
C9_Witness ==
    /\ seen # None
    /\ seen[1].between
    /\ params = Some(seen[1].params)
    /\ Len(log) = 5
    /\ IssuedCalls(log) = seen[1].calls
    /\ params[1].input_file # params[1].output_file
    /\ pc = "returned"

-----------------------------------------------------------------------------
(* C10 *)

\* C10: when the edit call returns an empty collection, the run fails at
\* the selection of the first image: no save is issued, nothing is printed
\* and nothing is returned; and a save is issued only when the response
\* holds at least one image.
C10_EmptyResponseFailsBeforeSave ==
    /\ (images # None /\ images[1].images = <<>> /\ pc # "L57") =>
          /\ Failed
          /\ error = "IndexError"
          /\ ~Issued("save")
          /\ stdout = <<>>
          /\ result = None
    /\ Issued("save") => (images # None /\ Len(images[1].images) >= 1)

C10_Witness ==
    /\ images = Some([images |-> <<>>])
    /\ pc = "exited" /\ exitCode = Some(1)
    /\ error = "IndexError"
    /\ fs[params[1].output_file] = None

====
